---- MODULE Spec2Model ----
(***************************************************************************)
(* Model of hyperfine's benchmark Scheduler (src/benchmark/scheduler.rs):  *)
(* run_benchmarks, print_relative_speed_comparison and final_export, with  *)
(* the collaborators they call (Executor, Benchmark, ExportManager and the *)
(* relative-speed comparator) modelled at their boundary.                  *)
(***************************************************************************)
EXTENDS Integers, Sequences, FiniteSets, TLC

(* ------------------------------ bounds --------------------------------- *)

\* largest number of commands handed to the Scheduler
MaxCommands == 3

\* largest number of comparisons the caller asks for in one run
MaxComparisons == 2

\* largest number of columns of a table header or footer
MaxColumns == 5

\* largest number of cells handed to table_row
MaxCells == 3

\* means of a benchmark result range over 0..MaxMean (0 is the degenerate case)
MaxMean == 2

(* ------------------------------ values --------------------------------- *)

\* Option::None, and the absent error
NoneVal == "None"

\* Option<T> as a sequence of at most one element
None == <<>>

Some(v) == <<v>>

IsSome(o) == Len(o) = 1

Unwrap(o) == o[1]

\* crate::options::ExecutorKind, the three variants matched in run_benchmarks
ExecutorKind == {"Raw", "Mock", "Shell"}

\* crate::options::SortOrder, the two variants matched in the comparison
SortOrder == {"MeanTime", "Command"}

\* crate::options::OutputStyleOption: Disabled, and one enabled style
OutputStyleOption == {"Disabled", "Full"}

\* the failure policy of the specification (section 7); the Scheduler never reads it
FailurePolicy == {"Abort", "Skip"}

\* the Options the Scheduler borrows
Options ==
    [executor_kind : ExecutorKind,
     output_style : OutputStyleOption,
     sort_order_speed_comparison : SortOrder,
     sort_order_exports : SortOrder,
     failure_policy : FailurePolicy]

\* the command lists: commands 1..n in declaration order
Commands == {[k \in 1..n |-> k] : n \in 0..MaxCommands}

\* the BenchmarkResult values Benchmark::run can return for a command; the stddev
\* is absent (a single sample) or present
BenchmarkResult(cmd) ==
    [command : {cmd},
     mean : 0..MaxMean,
     stddev : {None, Some(1)}]

(* ------------------------------- state --------------------------------- *)

VARIABLES
    commands,        \* Scheduler.commands
    options,         \* Scheduler.options
    results,         \* Scheduler.results
    executor,        \* the local `executor` of run_benchmarks, None before it is made
    executors_made,  \* number of executors constructed
    calibrations,    \* number of calls of Executor::calibrate
    bench_log,       \* the Benchmark::run calls made: <<number, cmd, executor, ok>>
    exports,         \* the ExportManager::write_results calls made
    comparator_calls,\* number of calls of relative_speed::compute_with_check
    comparison,      \* the comparator's answer the comparison prints from, None if none
    output,          \* what print_relative_speed_comparison wrote, in order
    request,         \* the call made on the AsciidocExporter, None if none
    document,        \* the text the AsciidocExporter returned, as its pieces in order
    pc,              \* position of the control thread
    number,          \* loop index of run_benchmarks (enumerate)
    error            \* the Err a call returned, NoneVal if none

vars == <<commands, options, results, executor, executors_made, calibrations,
          bench_log, exports, comparator_calls, comparison, output, request,
          document, pc, number, error>>

\* Scheduler::new: the result list starts empty
Init ==
    /\ commands \in Commands
    /\ options \in Options
    /\ results = <<>>
    /\ executor = None
    /\ executors_made = 0
    /\ calibrations = 0
    /\ bench_log = <<>>
    /\ exports = <<>>
    /\ comparator_calls = 0
    /\ comparison = None
    /\ output = <<>>
    /\ request = None
    /\ document = <<>>
    /\ pc = "Initializing"
    /\ number = 0
    /\ error = NoneVal

(* --------------------------- collaborators ----------------------------- *)

\* Executor::calibrate: Ok (TRUE) or Err (FALSE); the Mock executor's is a no-op
CalibrateOutcomes(kind) == IF kind = "Mock" THEN {TRUE} ELSE BOOLEAN

\* Benchmark::run: Err (None) or Ok with a result for the command
BenchmarkRun(cmd) == {None} \cup {Some(r) : r \in BenchmarkResult(cmd)}

\* ExportManager::write_results: Ok (TRUE) or Err (FALSE)
WriteOutcomes == BOOLEAN

\* one recorded call of ExportManager::write_results
WriteCall(rs, sort_order, is_partial, ok) ==
    [results |-> rs, sort_order |-> sort_order, is_partial |-> is_partial, ok |-> ok]

\* the caller of the Scheduler: comparison after run_benchmarks returned Ok
AfterRunBenchmarks == "Comparing"

\* the caller of the Scheduler: final export after the comparison
AfterComparison == "Exporting"

\* the caller of the Scheduler: nothing after the final export
AfterFinalExport == "Done"

(* ---------------------- relative-speed comparator ---------------------- *)

\* the reference taken as the last one in command order on a tie
fastest_of_LastOnTie(rs) ==
    CHOOSE i \in 1..Len(rs) :
        /\ \A j \in 1..Len(rs) : rs[i].mean <= rs[j].mean
        /\ \A j \in (i + 1)..Len(rs) : rs[j].mean > rs[i].mean

\* index of the reference: the minimum mean, the first one in command order on a tie
fastest_of(rs) ==
    CHOOSE i \in 1..Len(rs) :
        /\ \A j \in 1..Len(rs) : rs[i].mean <= rs[j].mean
        /\ \A j \in 1..(i - 1) : rs[j].mean > rs[i].mean

\* the ratio mean / fastest.mean, kept exact as a fraction
relative_speed(r, f) == [num |-> r.mean, den |-> f.mean]

\* the relative errors added up instead of combined in quadrature
relative_speed_stddev_LinearSum(r, f, is_fastest) ==
    IF is_fastest \/ ~IsSome(r.stddev) \/ ~IsSome(f.stddev)
    THEN None
    ELSE Some([sq_num |-> (Unwrap(r.stddev) * f.mean + Unwrap(f.stddev) * r.mean)
                          * (Unwrap(r.stddev) * f.mean + Unwrap(f.stddev) * r.mean),
               sq_den |-> f.mean * f.mean * f.mean * f.mean])

\* relative_speed * sqrt((stddev/mean)^2 + (fstddev/fmean)^2), kept exact as the
\* fraction under the square root: (stddev^2 fmean^2 + fstddev^2 mean^2) / fmean^4
relative_speed_stddev(r, f, is_fastest) ==
    IF is_fastest \/ ~IsSome(r.stddev) \/ ~IsSome(f.stddev)
    THEN None
    ELSE Some([sq_num |-> Unwrap(r.stddev) * Unwrap(r.stddev) * f.mean * f.mean
                          + Unwrap(f.stddev) * Unwrap(f.stddev) * r.mean * r.mean,
               sq_den |-> f.mean * f.mean * f.mean * f.mean])

\* the AnnotatedResult of the i-th result against the reference at index fi
Annotate(rs, i, fi) ==
    [result |-> rs[i],
     relative_speed |-> relative_speed(rs[i], rs[fi]),
     relative_speed_stddev |-> relative_speed_stddev(rs[i], rs[fi], i = fi),
     is_fastest |-> (i = fi)]

\* stable insertion of x into a sequence sorted by ascending mean
RECURSIVE InsertByMean(_, _)
InsertByMean(x, s) ==
    IF s = <<>> THEN <<x>>
    ELSE IF x.result.mean < s[1].result.mean THEN <<x>> \o s
    ELSE <<s[1]>> \o InsertByMean(x, Tail(s))

\* stable sort by ascending mean
RECURSIVE SortByMean(_)
SortByMean(s) ==
    IF s = <<>> THEN <<>>
    ELSE InsertByMean(s[Len(s)], SortByMean(SubSeq(s, 1, Len(s) - 1)))

\* relative_speed::compute_with_check: None when the fastest mean is zero
compute_with_check(rs, sort_order) ==
    LET fi == fastest_of(rs)
        annotated == [i \in 1..Len(rs) |-> Annotate(rs, i, fi)]
    IN  IF rs[fi].mean = 0 THEN None
        ELSE Some(IF sort_order = "MeanTime" THEN SortByMean(annotated) ELSE annotated)

(* ------------------------------ printing ------------------------------- *)

\* one printed line: its text, and the command, ratio and "± stddev" suffix it shows
Line(text, command, ratio, suffix) ==
    [line |-> text, command |-> command, relative_speed |-> ratio, stddev |-> suffix]

\* a line that shows no command and no number
TextLine(text) == Line(text, None, None, None)

\* annotated_results.iter().find(|r| r.is_fastest)
FindFastest(annotated) ==
    IF \E i \in 1..Len(annotated) : annotated[i].is_fastest
    THEN Some(annotated[CHOOSE i \in 1..Len(annotated) :
                  /\ annotated[i].is_fastest
                  /\ \A j \in 1..(i - 1) : ~annotated[j].is_fastest])
    ELSE None

\* the filter that lets every entry through
IsOther_All(item) == TRUE

\* the predicate of annotated_results.iter().filter(|r| !r.is_fastest)
IsOther(item) == ~item.is_fastest

\* the SortOrder::MeanTime arm, after the lookup of the fastest entry succeeded
SummaryLines(annotated) ==
    LET fastest == Unwrap(FindFastest(annotated))
        others == SelectSeq(annotated, IsOther)
    IN  <<TextLine("Summary"),
          Line("ran", Some(fastest.result.command), None, None)>>
        \o [k \in 1..Len(others) |->
               Line("times faster than", Some(others[k].result.command),
                    Some(others[k].relative_speed), others[k].relative_speed_stddev)]

\* the table rows with an absent uncertainty printed as zero
TableLines_ZeroSuffix(annotated) ==
    <<TextLine("Relative speed comparison")>>
    \o [k \in 1..Len(annotated) |->
           Line("row", Some(annotated[k].result.command),
                Some(annotated[k].relative_speed),
                IF annotated[k].is_fastest THEN None
                ELSE IF IsSome(annotated[k].relative_speed_stddev)
                     THEN annotated[k].relative_speed_stddev
                     ELSE Some([sq_num |-> 0, sq_den |-> 1]))]

\* the table rows with the test for the fastest entry left out
TableLines_FastestSuffix(annotated) ==
    <<TextLine("Relative speed comparison")>>
    \o [k \in 1..Len(annotated) |->
           Line("row", Some(annotated[k].result.command),
                Some(annotated[k].relative_speed),
                annotated[k].relative_speed_stddev)]

\* the SortOrder::Command arm
TableLines(annotated) ==
    <<TextLine("Relative speed comparison")>>
    \o [k \in 1..Len(annotated) |->
           Line("row", Some(annotated[k].result.command),
                Some(annotated[k].relative_speed),
                IF annotated[k].is_fastest THEN None
                ELSE annotated[k].relative_speed_stddev)]

\* the eprintln! of the else branch
NoteLines == <<TextLine("Note")>>

(* ------------------------- steps of the code --------------------------- *)

\* the shell executor constructed whatever options.executor_kind says
NewExecutor_AlwaysShell(kind, id) == [kind |-> "Shell", id |-> id, calibrated |-> FALSE]

\* the match on options.executor_kind that constructs the executor
NewExecutor(kind, id) == [kind |-> kind, id |-> id, calibrated |-> FALSE]

\* the result of calibrate() dropped instead of propagated
AfterCalibrate_Ignored(ok, n) == IF n = 0 THEN AfterRunBenchmarks ELSE "Running"

\* executor.calibrate()?: an Err returns from run_benchmarks, an Ok enters the
\* loop or, with no command, returns Ok(())
AfterCalibrate(ok, n) ==
    IF ok THEN (IF n = 0 THEN AfterRunBenchmarks ELSE "Running") ELSE "Failed"

\* a failed benchmark skipped instead of propagated
AfterBenchmark_Skipped(ok) == "Writing"

\* Benchmark::run()?: an Err returns from run_benchmarks
AfterBenchmark(ok) == IF ok THEN "Writing" ELSE "Failed"

\* the result inserted at the front of the list
Push_Front(rs, r) == <<r>> \o rs

\* self.results.push(result)
Push(rs, r) == Append(rs, r)

\* a write that hands over only the newest result
ExportedResults_OnlyLast(rs) == IF rs = <<>> THEN rs ELSE <<rs[Len(rs)]>>

\* the result list put in ascending order of mean before it is handed over
ExportedResults_SortedByMean(rs) ==
    LET sorted == SortByMean([i \in 1..Len(rs) |-> [result |-> rs[i]]])
    IN  [i \in 1..Len(rs) |-> sorted[i].result]

\* the result list handed to write_results: &self.results
ExportedResults(rs) == rs

\* the is_partial argument of the write in run_benchmarks
PartialWrite == TRUE

\* the final write flagged as one more partial write
FinalWrite_Partial == TRUE

\* the is_partial argument of the write in final_export
FinalWrite == FALSE

\* the result of the partial write dropped instead of propagated
AfterWrite_Ignored(ok, num, n) ==
    IF num + 1 < n THEN "Running" ELSE AfterRunBenchmarks

\* the loop left one command early
AfterWrite_StopsEarly(ok, num, n) ==
    IF ok THEN (IF num + 2 < n THEN "Running" ELSE AfterRunBenchmarks) ELSE "Failed"

\* write_results(..)? in the loop: an Err returns from run_benchmarks, an Ok goes
\* to the next command or, after the last one, returns Ok(())
AfterWrite(ok, num, n) ==
    IF ok THEN (IF num + 1 < n THEN "Running" ELSE AfterRunBenchmarks) ELSE "Failed"

\* the loop index not advanced: the same command is benchmarked again
NextNumber_Stuck(ok, num, n) == num

\* the enumerate() index of the iteration that follows a write
NextNumber(ok, num, n) == IF ok /\ num + 1 < n THEN num + 1 ELSE num

\* the length test off by one: a single result is compared
EarlyReturn_OffByOne(opts, rs) == opts.output_style = "Disabled" \/ Len(rs) < 1

\* the two early returns of print_relative_speed_comparison
EarlyReturn(opts, rs) == opts.output_style = "Disabled" \/ Len(rs) < 2

\* the unwrap() of the lookup of the fastest entry panics
UnwrapPanics(annotated_results, sort_order) ==
    /\ IsSome(annotated_results)
    /\ sort_order = "MeanTime"
    /\ ~IsSome(FindFastest(Unwrap(annotated_results)))

\* the table heading printed before the comparator's answer is looked at
RenderComparison_HeadingFirst(annotated_results, sort_order) ==
    IF IsSome(annotated_results)
    THEN IF sort_order = "MeanTime"
         THEN SummaryLines(Unwrap(annotated_results))
         ELSE TableLines(Unwrap(annotated_results))
    ELSE <<TextLine(IF sort_order = "MeanTime" THEN "Summary"
                    ELSE "Relative speed comparison")>> \o NoteLines

\* what the if-let on the comparator's answer prints
RenderComparison(annotated_results, sort_order) ==
    IF IsSome(annotated_results)
    THEN IF sort_order = "MeanTime"
         THEN IF IsSome(FindFastest(Unwrap(annotated_results)))
              THEN SummaryLines(Unwrap(annotated_results))
              ELSE <<TextLine("Summary")>>
         ELSE TableLines(Unwrap(annotated_results))
    ELSE NoteLines

(* ------------------------------ actions -------------------------------- *)

\* run_benchmarks: the executor is selected by options.executor_kind
SelectExecutor ==
    /\ pc = "Initializing"
    /\ executor' = Some(NewExecutor(options.executor_kind, executors_made + 1))
    /\ executors_made' = executors_made + 1
    /\ pc' = "Calibrating"
    /\ UNCHANGED <<request, document>>
    /\ UNCHANGED <<comparison, commands, options, results, calibrations, bench_log, exports,
                   comparator_calls, output, number, error>>

\* run_benchmarks: executor.calibrate()?
Calibrate ==
    /\ pc = "Calibrating"
    /\ calibrations' = calibrations + 1
    /\ \E ok \in CalibrateOutcomes(Unwrap(executor).kind) :
          /\ executor' = Some([Unwrap(executor) EXCEPT !.calibrated = ok])
          /\ pc' = AfterCalibrate(ok, Len(commands))
          /\ error' = IF pc' = "Failed" THEN "Calibrate" ELSE error
    /\ UNCHANGED <<request, document>>
    /\ UNCHANGED <<comparison, commands, options, results, executors_made, bench_log, exports,
                   comparator_calls, output, number>>

\* run_benchmarks: self.results.push(Benchmark::new(number, cmd, options, executor).run()?)
RunBenchmark ==
    /\ pc = "Running"
    /\ LET cmd == commands[number + 1]
       IN  \E outcome \in BenchmarkRun(cmd) :
              /\ bench_log' = Append(bench_log,
                                     [number |-> number, command |-> cmd,
                                      executor |-> Unwrap(executor),
                                      ok |-> IsSome(outcome)])
              /\ pc' = AfterBenchmark(IsSome(outcome))
              /\ results' = IF IsSome(outcome)
                            THEN Push(results, Unwrap(outcome))
                            ELSE results
              /\ error' = IF pc' = "Failed" THEN "Benchmark" ELSE error
    /\ UNCHANGED <<request, document>>
    /\ UNCHANGED <<comparison, commands, options, executor, executors_made, calibrations, exports,
                   comparator_calls, output, number>>

\* run_benchmarks: export_manager.write_results(&results, sort_order_exports, true)?,
\* then the next iteration or, after the last command, Ok(())
WritePartial ==
    /\ pc = "Writing"
    /\ \E ok \in WriteOutcomes :
          /\ exports' = Append(exports,
                               WriteCall(ExportedResults(results),
                                         options.sort_order_exports, PartialWrite, ok))
          /\ pc' = AfterWrite(ok, number, Len(commands))
          /\ number' = NextNumber(ok, number, Len(commands))
          /\ error' = IF pc' = "Failed" THEN "PartialExport" ELSE error
    /\ UNCHANGED <<request, document>>
    /\ UNCHANGED <<comparison, commands, options, results, executor, executors_made, calibrations,
                   bench_log, comparator_calls, output>>

\* print_relative_speed_comparison
PrintRelativeSpeedComparison ==
    /\ pc = "Comparing"
    /\ IF EarlyReturn(options, results)
       THEN /\ output' = output
            /\ comparator_calls' = comparator_calls
            /\ comparison' = comparison
            /\ pc' = AfterComparison
       ELSE LET annotated_results ==
                    compute_with_check(results, options.sort_order_speed_comparison)
            IN  /\ comparator_calls' = comparator_calls + 1
                /\ comparison' = annotated_results
                /\ output' = output \o RenderComparison(annotated_results,
                                           options.sort_order_speed_comparison)
                /\ pc' = IF UnwrapPanics(annotated_results,
                                         options.sort_order_speed_comparison)
                         THEN "Panicked"
                         ELSE AfterComparison
    /\ UNCHANGED <<request, document>>
    /\ UNCHANGED <<commands, options, results, executor, executors_made, calibrations,
                   bench_log, exports, number, error>>

\* final_export: export_manager.write_results(&results, sort_order_exports, false)
FinalExport ==
    /\ pc = "Exporting"
    /\ \E ok \in WriteOutcomes :
          /\ exports' = Append(exports,
                               WriteCall(ExportedResults(results),
                                         options.sort_order_exports, FinalWrite, ok))
          /\ pc' = IF ok THEN AfterFinalExport ELSE "Failed"
          /\ error' = IF ok THEN error ELSE "FinalExport"
    /\ UNCHANGED <<request, document>>
    /\ UNCHANGED <<comparison, commands, options, results, executor, executors_made, calibrations,
                   bench_log, comparator_calls, output, number>>

Next ==
    \/ SelectExecutor
    \/ Calibrate
    \/ RunBenchmark
    \/ WritePartial
    \/ PrintRelativeSpeedComparison
    \/ FinalExport

Spec == Init /\ [][Next]_vars

\* the types of the state
TypeOK ==
    /\ commands \in Commands
    /\ options \in Options
    /\ Len(results) <= Len(commands)
    /\ executors_made \in 0..1
    /\ calibrations \in 0..1
    /\ comparator_calls \in 0..MaxComparisons
    /\ number \in 0..MaxCommands
    /\ pc \in {"Initializing", "Calibrating", "Running", "Writing", "Comparing",
               "Exporting", "Done", "Failed", "Panicked"}
    /\ error \in {NoneVal, "Calibrate", "Benchmark", "PartialExport", "FinalExport"}

(* ------------------------------- claims -------------------------------- *)

\* the comparison call of the run has returned (or panicked)
ComparisonDone ==
    \/ pc \in {"Exporting", "Done", "Panicked"}
    \/ pc = "Failed" /\ error = "FinalExport"

\* the number of write_results calls of the log that match the flag
CountWrites(is_partial) ==
    Cardinality({i \in 1..Len(exports) : exports[i].is_partial = is_partial})

\* C1: once the benchmark of command i has succeeded, the i-th write_results call
\* carries exactly the results of commands 1..i in order, and it is issued before
\* command i+1 is started, also when command i+1 then fails.
C1_IncrementalExport ==
    /\ \A i \in 1..Len(exports) :
          exports[i].is_partial =>
             /\ Len(exports[i].results) = i
             /\ i <= Len(results)
             /\ exports[i].results = SubSeq(results, 1, i)
             /\ \A k \in 1..i : exports[i].results[k].command = commands[k]
    /\ \A i \in 1..Len(results) :
          (i < Len(results) \/ pc # "Writing") =>
             (Len(exports) >= i /\ exports[i].is_partial)
    /\ \A b \in 2..Len(bench_log) :
          /\ Len(exports) >= b - 1
          /\ exports[b - 1].is_partial

\* C1 witness: command 3 failed after two commands were benchmarked and exported
C1_Witness ==
    /\ pc = "Failed" /\ error = "Benchmark"
    /\ Len(results) = 2 /\ Len(exports) = 2 /\ Len(bench_log) = 3
    /\ exports[2].results = results

\* the smallest mean of the result list is zero
MinMeanIsZero == \E i \in 1..Len(results) : results[i].mean = 0

\* C2: with at least two results and comparison output enabled, a minimum mean of
\* exactly 0 makes the comparator answer None and the comparison print the
\* diagnostic note only: no Summary, no table, no ratio, and no panic.
C2_ZeroMeanNoteOnly ==
    (/\ pc \notin {"Initializing", "Calibrating", "Running", "Writing", "Comparing"}
     /\ ~(pc = "Failed" /\ error # "FinalExport")
     /\ options.output_style # "Disabled"
     /\ Len(results) >= 2
     /\ MinMeanIsZero)
    => /\ pc # "Panicked"
       /\ compute_with_check(results, options.sort_order_speed_comparison) = None
       /\ comparator_calls = 1
       /\ output = NoteLines
       /\ \A k \in 1..Len(output) :
             /\ output[k].line \notin {"Summary", "Relative speed comparison"}
             /\ output[k].relative_speed = None

\* C2 witness: three results, the second with mean 0, and the note was printed
C2_Witness ==
    /\ ComparisonDone
    /\ options.output_style # "Disabled"
    /\ Len(results) = 3
    /\ results[2].mean = 0 /\ results[1].mean > 0
    /\ output = NoteLines

\* C3: a failed calibrate() makes run_benchmarks return that error before any
\* benchmark is started: no command runs, the result list stays empty and
\* write_results is never called.
C3_CalibrationFailureAborts ==
    (calibrations >= 1 /\ ~Unwrap(executor).calibrated)
    => /\ pc = "Failed"
       /\ error = "Calibrate"
       /\ bench_log = <<>>
       /\ results = <<>>
       /\ exports = <<>>
       /\ comparator_calls = 0
       /\ output = <<>>

\* C3 witness: calibration failed with commands waiting
C3_Witness ==
    /\ error = "Calibrate"
    /\ Len(commands) >= 2
    /\ calibrations = 1

\* C4 as stated: a failed benchmark of command i aborts the run or, under the
\* skipping policy, is passed over so that the run goes on with command i+1.
C4_PolicyDecides ==
    \A b \in 1..Len(bench_log) :
       ~bench_log[b].ok =>
          IF options.failure_policy = "Skip"
          THEN ~(pc = "Failed" /\ error = "Benchmark")
          ELSE pc = "Failed" /\ error = "Benchmark"

\* C4 (amended): a failed benchmark of command i makes run_benchmarks return that
\* error whatever the options say: it is the last benchmark started, nothing is
\* exported for it, and the results collected for the commands before i are all
\* still in the result list, unaltered.
C4_BenchmarkFailureAborts ==
    \A b \in 1..Len(bench_log) :
       ~bench_log[b].ok =>
          /\ pc = "Failed"
          /\ error = "Benchmark"
          /\ b = Len(bench_log)
          /\ Len(results) = b - 1
          /\ Len(exports) = b - 1
          /\ \A k \in 1..(b - 1) : results[k].command = commands[k]
          /\ b >= 2 => exports[b - 1].results = results
          /\ comparator_calls = 0

\* C4 witness: under the skipping policy command 2 of 3 failed after command 1
\* was benchmarked
C4_Witness ==
    /\ options.failure_policy = "Skip"
    /\ Len(commands) = 3
    /\ Len(bench_log) = 2
    /\ ~bench_log[2].ok
    /\ Len(results) = 1

\* C5: a failed partial export after command i makes run_benchmarks return that
\* error at once: no command after i is benchmarked or exported, and the partial
\* exports of commands 1..i-1 stay as they were issued, each exactly once.
C5_ExportFailureAborts ==
    (\E i \in 1..Len(exports) : exports[i].is_partial /\ ~exports[i].ok)
    => LET i == Len(exports)
       IN  /\ pc = "Failed"
           /\ error = "PartialExport"
           /\ ~exports[i].ok
           /\ Len(bench_log) = i
           /\ Len(results) = i
           /\ \A k \in 1..i : exports[k].is_partial /\ Len(exports[k].results) = k
           /\ \A k \in 1..(i - 1) :
                 exports[k].ok /\ exports[k].results = SubSeq(results, 1, k)
           /\ comparator_calls = 0
           /\ output = <<>>

\* C5 witness: the partial export after command 2 of 3 failed
C5_Witness ==
    /\ error = "PartialExport"
    /\ Len(commands) = 3
    /\ Len(exports) = 2
    /\ exports[1].ok

\* run_benchmarks has not returned Ok and handed over to final_export yet
BeforeFinalExport ==
    \/ pc \in {"Initializing", "Calibrating", "Running", "Writing", "Comparing",
               "Exporting", "Panicked"}
    \/ pc = "Failed" /\ error # "FinalExport"

\* C6: every write of run_benchmarks is flagged partial; final_export makes one
\* write, flagged final, with the whole result list; in a complete run the final
\* write happens exactly once and after every partial write.
C6_PartialThenFinal ==
    /\ BeforeFinalExport => CountWrites(FALSE) = 0
    /\ \A i \in 1..Len(exports) :
          ~exports[i].is_partial => (i = Len(exports) /\ exports[i].results = results)
    /\ ~BeforeFinalExport => CountWrites(FALSE) = 1
    /\ pc = "Done" => CountWrites(TRUE) = Len(commands)

\* C6 witness: a complete run of three commands, three partial writes and the final one
C6_Witness ==
    /\ pc = "Done"
    /\ Len(exports) = 4
    /\ ~exports[4].is_partial

\* C7: one executor is constructed, of the kind options.executor_kind names; it is
\* calibrated once, before the first benchmark, and every benchmark of the run
\* uses that executor.
C7_OneExecutor ==
    /\ executors_made <= 1
    /\ calibrations <= 1
    /\ pc # "Initializing" => (executors_made = 1 /\ IsSome(executor))
    /\ pc \notin {"Initializing", "Calibrating"} => calibrations = 1
    /\ IsSome(executor) => Unwrap(executor).kind = options.executor_kind
    /\ \A b \in 1..Len(bench_log) :
          /\ calibrations = 1
          /\ bench_log[b].executor = Unwrap(executor)
          /\ bench_log[b].executor.calibrated
          /\ bench_log[b].executor.kind = options.executor_kind

\* C7 witness: three commands were benchmarked with the mock executor
C7_Witness ==
    /\ options.executor_kind = "Mock"
    /\ Len(bench_log) = 3
    /\ calibrations = 1

\* C8: the result list is append-only and in declaration order: its k-th entry is
\* the result of the k-th command, and a step never changes, reorders or removes
\* the entries already present.
C8_AppendOnly ==
    /\ [](\A k \in 1..Len(results) : results[k].command = commands[k])
    /\ [][/\ Len(results') >= Len(results)
          /\ SubSeq(results', 1, Len(results)) = results]_vars

\* C8 witness: the result list holds the results of three commands
C8_Witness ==
    /\ Len(results) = 3
    /\ results[3].command = commands[3]
    /\ pc = "Writing"

\* the phases that may follow a phase in one step
PhaseStep ==
    \/ pc = "Initializing" /\ pc' = "Calibrating" /\ number' = number
    \/ pc = "Calibrating" /\ pc' = "Running" /\ number' = 0 /\ Len(commands) > 0
    \/ pc = "Calibrating" /\ pc' = "Comparing" /\ Len(commands) = 0
    \/ pc = "Running" /\ pc' = "Writing" /\ number' = number
    \/ pc = "Writing" /\ pc' = "Running" /\ number' = number + 1
    \/ pc = "Writing" /\ pc' = "Comparing" /\ number + 1 = Len(commands)
    \/ pc = "Comparing" /\ pc' = "Exporting"
    \/ pc = "Exporting" /\ pc' = "Done"
    \/ pc \in {"Calibrating", "Running", "Writing", "Exporting"} /\ pc' = "Failed"
    \/ pc = "Comparing" /\ pc' = "Panicked"

\* C9: the phases follow one another forward only, Initializing, Calibrating,
\* Running(0), Running(1), ..., Comparing, Exporting, Done (or the run fails and
\* stops); each command index is benchmarked at most once, in order, and the
\* benchmark of command i+1 starts only after the partial export of command i.
C9_ForwardOnly ==
    /\ [][PhaseStep]_vars
    /\ [](\A b \in 1..Len(bench_log) : bench_log[b].number = b - 1)
    /\ [](\A b \in 2..Len(bench_log) :
             Len(exports) >= b - 1 /\ exports[b - 1].ok /\ bench_log[b - 1].ok)
    /\ [](pc \in {"Running", "Writing"} =>
             Len(bench_log) = number + (IF pc = "Writing" THEN 1 ELSE 0))

\* C9 witness: a run of three commands went through every phase
C9_Witness ==
    /\ pc = "Done"
    /\ Len(bench_log) = 3
    /\ number = 2

\* the block headings and the note among the printed lines
Headings ==
    {k \in 1..Len(output) :
        output[k].line \in {"Summary", "Relative speed comparison", "Note"}}

\* C10: with fewer than two results or with the output style Disabled the
\* comparison prints nothing and does not call the comparator; otherwise it
\* prints exactly one of the Summary block, the table and the diagnostic note.
C10_ComparisonOutput ==
    IF ComparisonDone
    THEN IF options.output_style = "Disabled" \/ Len(results) < 2
         THEN output = <<>> /\ comparator_calls = 0
         ELSE /\ comparator_calls = 1
              /\ Cardinality(Headings) = 1
              /\ 1 \in Headings
    ELSE output = <<>> /\ comparator_calls = 0

\* C10 witness: the comparison ran over a single result with output enabled
C10_Witness ==
    /\ ComparisonDone
    /\ options.output_style # "Disabled"
    /\ Len(results) = 1
    /\ output = <<>>

\* the result list can be compared: two results or more, all means positive
Comparable == Len(results) >= 2 /\ ~MinMeanIsZero

\* the comparison was printed: output enabled and the call has returned
ComparisonPrinted == ComparisonDone /\ options.output_style # "Disabled"

\* the indices of the entries of an annotated list that are flagged fastest
FastestEntries(a) == {k \in 1..Len(a) : a[k].is_fastest}

\* the indices of the entries of an annotated list whose relative speed is 1
UnitEntries(a) == {k \in 1..Len(a) : a[k].relative_speed.num = a[k].relative_speed.den}

\* the indices of the printed lines with the given text
LinesOf(text) == {k \in 1..Len(output) : output[k].line = text}

\* the Summary names the fastest once and lists each of the other n-1 commands once
SummaryListsOthersOnce ==
    (ComparisonPrinted /\ Comparable /\ options.sort_order_speed_comparison = "MeanTime")
    => /\ pc # "Panicked"
       /\ Cardinality(LinesOf("ran")) = 1
       /\ Cardinality(LinesOf("times faster than")) = Len(results) - 1
       /\ \A c \in 1..Len(results) :
             Cardinality({k \in LinesOf("ran") \cup LinesOf("times faster than") :
                             output[k].command = Some(results[c].command)}) = 1

\* C11 as stated: with two results or more and a positive minimum mean every
\* relative speed is at least 1 and exactly one entry is flagged fastest, the
\* entry whose relative speed is 1; the Summary finds it and lists the others once.
C11_FastestIsTheUnitEntry ==
    /\ Comparable =>
          \A so \in SortOrder :
             LET a == Unwrap(compute_with_check(results, so))
             IN  /\ \A k \in 1..Len(a) : a[k].relative_speed.num >= a[k].relative_speed.den
                 /\ Cardinality(FastestEntries(a)) = 1
                 /\ FastestEntries(a) = UnitEntries(a)
    /\ SummaryListsOthersOnce

\* C11 (amended): every relative speed is at least 1 and exactly one entry is
\* flagged fastest; it has relative speed 1, and so has every entry tied with it
\* at the minimum mean, which is not flagged; the Summary finds the fastest and
\* lists each of the other n-1 commands once.
C11_OneFastestAmongUnitEntries ==
    /\ Comparable =>
          \A so \in SortOrder :
             LET a == Unwrap(compute_with_check(results, so))
             IN  /\ Len(a) = Len(results)
                 /\ \A k \in 1..Len(a) : a[k].relative_speed.num >= a[k].relative_speed.den
                 /\ Cardinality(FastestEntries(a)) = 1
                 /\ FastestEntries(a) \subseteq UnitEntries(a)
                 /\ \A k \in UnitEntries(a) :
                       \A j \in 1..Len(results) : a[k].result.mean <= results[j].mean
    /\ SummaryListsOthersOnce

\* C11 witness: a Summary over three results, the first two tied at the minimum mean
C11_Witness ==
    /\ ComparisonPrinted
    /\ options.sort_order_speed_comparison = "MeanTime"
    /\ Len(results) = 3
    /\ results[1].mean = 1 /\ results[2].mean = 1 /\ results[3].mean = 2
    /\ Len(output) = 4

\* the indices of the results at the minimum mean
AtMinimum ==
    {i \in 1..Len(results) : \A j \in 1..Len(results) : results[i].mean <= results[j].mean}

\* the first declared command among those at the minimum mean
FirstAtMinimum == CHOOSE i \in AtMinimum : \A j \in AtMinimum : i <= j

\* C12: when several results share the minimum mean the comparator takes the one
\* declared first as the fastest, under either output sort order, and the
\* Summary names that command.
C12_TieBreakFirstDeclared ==
    /\ Comparable =>
          \A so \in SortOrder :
             LET a == Unwrap(compute_with_check(results, so))
             IN  \A k \in 1..Len(a) :
                    a[k].is_fastest <=> a[k].result = results[FirstAtMinimum]
    /\ (ComparisonPrinted /\ Comparable /\ options.sort_order_speed_comparison = "MeanTime")
       => \A k \in LinesOf("ran") :
             output[k].command = Some(results[FirstAtMinimum].command)

\* C12 witness: a Summary over three results, the last two tied at the minimum mean
C12_Witness ==
    /\ ComparisonPrinted
    /\ options.sort_order_speed_comparison = "MeanTime"
    /\ Len(results) = 3
    /\ results[1].mean = 2 /\ results[2].mean = 1 /\ results[3].mean = 1
    /\ output[2].command = Some(commands[2])

\* the index of the result a printed line is about
ResultOfLine(k) == CHOOSE c \in 1..Len(results) : output[k].command = Some(results[c].command)

\* C13: a result that is not the fastest has a relative_speed_stddev exactly when
\* its own stddev and the fastest result's stddev are both present; a result
\* without stddev has none, and its printed line shows no "±" suffix.
C13_UncertaintyNeedsBothStddevs ==
    /\ Comparable =>
          \A so \in SortOrder :
             LET a == Unwrap(compute_with_check(results, so))
             IN  \A k \in 1..Len(a) :
                    ~a[k].is_fastest =>
                       (IsSome(a[k].relative_speed_stddev)
                           <=> (/\ IsSome(a[k].result.stddev)
                                /\ IsSome(results[FirstAtMinimum].stddev)))
    /\ (ComparisonPrinted /\ Comparable)
       => \A k \in LinesOf("times faster than") \cup LinesOf("row") :
             LET c == ResultOfLine(k)
             IN  /\ ~IsSome(results[c].stddev) => output[k].stddev = None
                 /\ c # FirstAtMinimum =>
                       (IsSome(output[k].stddev)
                           <=> (/\ IsSome(results[c].stddev)
                                /\ IsSome(results[FirstAtMinimum].stddev)))

\* C13 witness: a printed table whose fastest result has a stddev, with one slower
\* result without stddev and one with
C13_Witness ==
    /\ ComparisonPrinted
    /\ options.sort_order_speed_comparison = "Command"
    /\ Len(results) = 3
    /\ results[1].mean = 1 /\ IsSome(results[1].stddev)
    /\ results[2].mean = 2 /\ ~IsSome(results[2].stddev)
    /\ results[3].mean = 2 /\ IsSome(results[3].stddev)
    /\ output[3].stddev = None
    /\ IsSome(output[4].stddev)

\* the partial writes that succeeded
OkPartials == {i \in 1..Len(exports) : exports[i].is_partial /\ exports[i].ok}

\* run_benchmarks has returned Ok(())
ReturnedOk == ~BeforeFinalExport \/ pc \in {"Comparing", "Exporting", "Panicked"}

\* C20: a failed benchmark adds no result and issues no write for its iteration; a
\* failed partial export leaves the new result in the list although no successful
\* export holds it; the list never exceeds the n commands, the successful partial
\* exports never exceed the list, and both are n after a successful return (with
\* no command the calibration still runs and nothing is exported).
C20_ResultsAndExportsCount ==
    /\ \A b \in 1..Len(bench_log) :
          ~bench_log[b].ok => (Len(results) = b - 1 /\ Len(exports) = b - 1)
    /\ \A i \in 1..Len(exports) :
          (exports[i].is_partial /\ ~exports[i].ok) =>
             /\ Len(results) = i
             /\ results[i].command = commands[i]
             /\ \A k \in 1..Len(exports) : exports[k].ok => Len(exports[k].results) < i
    /\ Len(results) <= Len(commands)
    /\ Cardinality(OkPartials) <= Len(results)
    /\ ReturnedOk =>
          /\ calibrations = 1
          /\ Len(results) = Len(commands)
          /\ Cardinality(OkPartials) = Len(commands)
          /\ CountWrites(TRUE) = Len(commands)

\* C20 witness: the partial export after the second of three commands failed and
\* the second result is in the list
C20_Witness ==
    /\ pc = "Failed"
    /\ Len(commands) = 3
    /\ Len(results) = 2
    /\ Cardinality(OkPartials) = 1
    /\ ~exports[2].ok

(* ------------------- a caller that compares repeatedly ------------------ *)

\* the caller asks for the comparison once more before the final export
CompareAgain ==
    /\ pc = "Exporting"
    /\ comparator_calls < MaxComparisons
    /\ pc' = "Comparing"
    /\ UNCHANGED <<request, document>>
    /\ UNCHANGED <<comparison, commands, options, results, executor, executors_made, calibrations,
                   bench_log, exports, comparator_calls, output, number, error>>

NextCalls ==
    \/ Next
    \/ CompareAgain

SpecCalls == Init /\ [][NextCalls]_vars

\* the result list as run_benchmarks left it: what its last partial write carried
LeftBehind == IF Len(commands) = 0 THEN <<>> ELSE exports[Len(commands)].results

\* a step of the comparison or of the final export touches neither the result
\* list nor the executor, and starts no benchmark
FrameStep ==
    pc \in {"Comparing", "Exporting"} =>
       /\ results' = results
       /\ executor' = executor
       /\ executors_made' = executors_made
       /\ calibrations' = calibrations
       /\ bench_log' = bench_log

\* only the benchmark step of run_benchmarks changes the result list
OnlyBenchmarkWrites == results' # results => (pc = "Running" /\ pc' = "Writing")

\* C19: the comparison and the final export leave the result list as it is and
\* neither calibrate nor run a command; only the benchmark step of run_benchmarks
\* changes the list, so the final export after any number of comparisons writes
\* the list run_benchmarks left behind.
C19_ComparisonAndExportFrame ==
    /\ [][FrameStep]_vars
    /\ [][OnlyBenchmarkWrites]_vars
    /\ [](\A i \in 1..Len(exports) :
             ~exports[i].is_partial =>
                (exports[i].results = results /\ exports[i].results = LeftBehind))

\* C19 witness: the final export was written after two printed comparisons
C19_Witness ==
    /\ pc = "Done"
    /\ comparator_calls = 2
    /\ Len(results) = 3
    /\ exports[4].results = results

(* ----------------- the printing arms on any annotated list -------------- *)

\* what varies in an entry: its mean and whether an uncertainty is attached
EntryChoices == [mean : 1..MaxMean, with_stddev : BOOLEAN]

\* an AnnotatedResult for command k, flagged fastest or not, with an uncertainty
\* attached or not, also on the fastest entry
AnnotatedResult(k, is_fastest, choice) ==
    [result |-> [command |-> k, mean |-> choice.mean, stddev |-> None],
     relative_speed |-> [num |-> choice.mean, den |-> 1],
     relative_speed_stddev |->
         IF choice.with_stddev THEN Some([sq_num |-> 1, sq_den |-> 1]) ELSE None,
     is_fastest |-> is_fastest]

\* the annotated lists over n commands with the entry at index f flagged fastest
AnnotatedLists(n, f) ==
    {[k \in 1..n |-> AnnotatedResult(k, k = f, t[k])] : t \in [1..n -> EntryChoices]}

\* a Scheduler whose comparator has answered with some annotated list
InitRender ==
    /\ commands \in {c \in Commands : Len(c) >= 2}
    /\ options \in {o \in Options : /\ o.executor_kind = "Mock"
                                    /\ o.output_style = "Full"
                                    /\ o.sort_order_exports = "Command"
                                    /\ o.failure_policy = "Abort"}
    /\ results = <<>>
    /\ executor = None
    /\ executors_made = 0
    /\ calibrations = 0
    /\ bench_log = <<>>
    /\ exports = <<>>
    /\ comparator_calls = 1
    /\ \E f \in 1..Len(commands) :
          comparison \in {Some(a) : a \in AnnotatedLists(Len(commands), f)}
    /\ output = <<>>
    /\ request = None
    /\ document = <<>>
    /\ pc = "Rendering"
    /\ number = 0
    /\ error = NoneVal

\* the if-let of print_relative_speed_comparison on the comparator's answer
RenderAnswer ==
    /\ pc = "Rendering"
    /\ output' = output \o RenderComparison(comparison,
                                            options.sort_order_speed_comparison)
    /\ pc' = IF UnwrapPanics(comparison, options.sort_order_speed_comparison)
             THEN "Panicked"
             ELSE "Rendered"
    /\ UNCHANGED <<request, document>>
    /\ UNCHANGED <<comparison, commands, options, results, executor, executors_made,
                   calibrations, bench_log, exports, comparator_calls, number, error>>

NextRender == RenderAnswer

SpecRender == InitRender /\ [][NextRender]_vars

\* the annotated list that was rendered
Rendered == Unwrap(comparison)

\* the indices of the rendered entries that are not flagged fastest, in order
OthersOf(a) == SelectSeq([k \in 1..Len(a) |-> k], LAMBDA k : ~a[k].is_fastest)

\* C18: a printed line shows the "±" suffix exactly when its entry is not the
\* fastest and has a relative_speed_stddev. The table has one row per entry, in
\* order, and the fastest row shows no suffix even with a relative_speed_stddev
\* attached; the Summary names the fastest once and gives it no ratio line.
C18_SuffixOnlyOnOthers ==
    pc = "Rendered" =>
       IF options.sort_order_speed_comparison = "Command"
       THEN /\ Len(output) = Len(Rendered) + 1
            /\ output[1].line = "Relative speed comparison"
            /\ \A k \in 1..Len(Rendered) :
                  /\ output[k + 1].line = "row"
                  /\ output[k + 1].command = Some(Rendered[k].result.command)
                  /\ IsSome(output[k + 1].stddev)
                        <=> (/\ ~Rendered[k].is_fastest
                             /\ IsSome(Rendered[k].relative_speed_stddev))
       ELSE LET others == OthersOf(Rendered)
            IN  /\ Len(output) = Len(others) + 2
                /\ output[1].line = "Summary"
                /\ output[2].line = "ran"
                /\ \A k \in 1..Len(Rendered) :
                      Rendered[k].is_fastest =>
                         /\ output[2].command = Some(Rendered[k].result.command)
                         /\ \A j \in 3..Len(output) :
                               output[j].command # Some(Rendered[k].result.command)
                /\ \A j \in 1..Len(others) :
                      /\ output[j + 2].line = "times faster than"
                      /\ output[j + 2].command = Some(Rendered[others[j]].result.command)
                      /\ IsSome(output[j + 2].stddev)
                            <=> IsSome(Rendered[others[j]].relative_speed_stddev)

\* C18 witness: a table of three rows whose fastest entry, the second, carries a
\* relative_speed_stddev and is printed without suffix
C18_Witness ==
    /\ pc = "Rendered"
    /\ options.sort_order_speed_comparison = "Command"
    /\ Len(Rendered) = 3
    /\ Rendered[2].is_fastest
    /\ IsSome(Rendered[2].relative_speed_stddev)
    /\ output[3].stddev = None
    /\ IsSome(output[4].stddev)

(* --------------------------- AsciidocExporter --------------------------- *)

\* super::markup::Alignment
Alignment == {"Left", "Right"}

\* the cell texts handed to table_row: single-line texts
CellTexts == {"a", "b", "c"}

\* the sequences over a set with at most n elements
SeqUpTo(S, n) == UNION {[1..k -> S] : k \in 0..n}

\* slice::join: the items with the separator between neighbours
RECURSIVE Join(_, _)
Join(items, sep) ==
    IF Len(items) = 0 THEN <<>>
    ELSE IF Len(items) = 1 THEN <<items[1]>>
    ELSE <<items[1], sep>> \o Join(Tail(items), sep)

\* the String made of the pieces in order
RECURSIVE Concat(_)
Concat(pieces) == IF pieces = <<>> THEN "" ELSE pieces[1] \o Concat(Tail(pieces))

\* the marker of an alignment in the cols specification
Marker(a) == IF a = "Left" THEN "<" ELSE ">"

\* AsciidocExporter::table_header
table_header(cell_aligmnents) ==
    <<"[cols=\"">>
    \o Join([k \in 1..Len(cell_aligmnents) |-> Marker(cell_aligmnents[k])], ",")
    \o <<"\"]\n|===">>

\* AsciidocExporter::table_footer
table_footer(cell_aligmnents) == <<"|===\n">>

\* the cells of a row joined on one line
table_row_OneLine(cells) == <<"\n| ">> \o Join(cells, " | ") \o <<" \n">>

\* AsciidocExporter::table_row
table_row(cells) == <<"\n| ">> \o Join(cells, " \n| ") \o <<" \n">>

\* AsciidocExporter::table_divider
table_divider(cell_aligmnents) == <<>>

\* the backquote character U+0060; a string of this module cannot hold the
\* character itself, so it is written by its code point
Backquote == "<U+0060>"

\* AsciidocExporter::command
command(cmd) == Backquote \o cmd \o Backquote

\* the calls of table_header, table_footer and table_row
HeaderRequests == {[op |-> "table_header", alignments |-> al] : al \in SeqUpTo(Alignment, MaxColumns)}

FooterRequests == {[op |-> "table_footer", alignments |-> al] : al \in SeqUpTo(Alignment, MaxColumns)}

RowRequests == {[op |-> "table_row", cells |-> c] : c \in SeqUpTo(CellTexts, MaxCells)}

\* the time units of the two format tests
Unit == {"Second", "MilliSecond"}

\* Unit::short_name as it shows in the column headings
short_name(unit) == IF unit = "Second" THEN "s" ELSE "ms"

\* the times of a result list are whole multiples of one tick: a second, or a
\* thousandth of a second
TicksPerSecond == {1, 1000}

RECURSIVE Pow10(_)
Pow10(d) == IF d = 0 THEN 1 ELSE 10 * Pow10(d - 1)

\* the last w decimal digits of n, zero-padded
RECURSIVE Digits(_, _)
Digits(n, w) == IF w = 0 THEN "" ELSE Digits(n \div 10, w - 1) \o ToString(n % 10)

\* the decimal text of v / 10^d with d fractional digits
Fixed(v, d) == ToString(v \div Pow10(d)) \o "." \o Digits(v % Pow10(d), d)

\* a time of t ticks in the unit: three decimals of a second, one of a millisecond
format_duration_value(t, ticks_per_second, unit) ==
    LET thousandths == t * (1000 \div ticks_per_second)
    IN  IF unit = "Second" THEN Fixed(thousandths, 3) ELSE Fixed(thousandths * 10, 1)

\* num / den rounded to hundredths
RoundHundredths(num, den) == (200 * num + den) \div (2 * den)

\* the integer square root of v, lo * lo <= v < hi * hi
RECURSIVE isqrt_between(_, _, _)
isqrt_between(v, lo, hi) ==
    IF hi - lo <= 1 THEN lo
    ELSE LET mid == (lo + hi) \div 2
         IN  IF mid * mid <= v THEN isqrt_between(v, mid, hi)
             ELSE isqrt_between(v, lo, mid)

isqrt(v) == isqrt_between(v, 0, 46340)

\* sqrt(sq_num / sq_den) rounded to hundredths
SqrtHundredths(sq_num, sq_den) ==
    LET q == sq_num \div sq_den
        r == sq_num % sq_den
        v == q * 10000 + (r * 10000) \div sq_den
        rest == (r * 10000) % sq_den
        s == isqrt(v)
    IN  IF v > s * s + s \/ (v = s * s + s /\ 4 * rest >= sq_den) THEN s + 1 ELSE s

\* the command text with every pipe escaped
escape(pieces) == [k \in 1..Len(pieces) |-> IF pieces[k] = "|" THEN "\\|" ELSE pieces[k]]

\* the alignments of the five columns
ColumnAlignments == <<"Left", "Right", "Right", "Right", "Right">>

\* the headings of the five columns
Headings5(unit) ==
    <<"Command",
      "Mean [" \o short_name(unit) \o "]",
      "Min [" \o short_name(unit) \o "]",
      "Max [" \o short_name(unit) \o "]",
      "Relative">>

\* the Relative cell of an entry
RelativeCell(entry) ==
    Fixed(RoundHundredths(entry.relative_speed.num, entry.relative_speed.den), 2)
    \o (IF entry.is_fastest \/ ~IsSome(entry.relative_speed_stddev) THEN ""
        ELSE " ± " \o Fixed(SqrtHundredths(Unwrap(entry.relative_speed_stddev).sq_num,
                                           Unwrap(entry.relative_speed_stddev).sq_den), 2))

\* the five cells of the row of an entry
RowCells(entry, ticks_per_second, unit) ==
    <<command(Concat(escape(entry.result.command))),
      format_duration_value(entry.result.mean, ticks_per_second, unit) \o " ± "
          \o format_duration_value(Unwrap(entry.result.stddev), ticks_per_second, unit),
      format_duration_value(entry.result.min, ticks_per_second, unit),
      format_duration_value(entry.result.max, ticks_per_second, unit),
      RelativeCell(entry)>>

\* the row blocks of the entries in their order
RECURSIVE Rows(_, _, _)
Rows(entries, ticks_per_second, unit) ==
    IF entries = <<>> THEN <<>>
    ELSE table_row(RowCells(entries[1], ticks_per_second, unit))
         \o Rows(Tail(entries), ticks_per_second, unit)

\* the table of the entries: header, headings, divider, rows, footer
table_results(entries, ticks_per_second, unit) ==
    table_header(ColumnAlignments)
    \o table_row(Headings5(unit))
    \o table_divider(ColumnAlignments)
    \o Rows(entries, ticks_per_second, unit)
    \o table_footer(ColumnAlignments)

\* the entries a serialisation shows
entries_of(results_, sort_order) == Unwrap(compute_with_check(results_, sort_order))

\* serialize with the rows always ranked by mean
serialize_RankedByMean(results_, ticks_per_second, unit, sort_order) ==
    table_results(entries_of(results_, "MeanTime"), ticks_per_second, unit)

\* MarkupExporter::serialize on a given unit
serialize(results_, ticks_per_second, unit, sort_order) ==
    table_results(entries_of(results_, sort_order), ticks_per_second, unit)

\* a result as the exporter reads it
ExportedResult(cmd, mean, stddev, median, min, max, times) ==
    [command |-> cmd, mean |-> mean, stddev |-> Some(stddev), median |-> median,
     min |-> min, max |-> max, times |-> Some(times),
     exit_codes |-> [k \in 1..Len(times) |-> Some(0)]]

\* the results of test_asciidoc_format_s, in seconds
FixtureSeconds ==
    <<ExportedResult(<<"FOO=1 BAR=2 command ", "|", " 1">>, 1, 2, 1, 5, 6, <<7, 8, 9>>),
      ExportedResult(<<"FOO=1 BAR=7 command ", "|", " 2">>, 11, 12, 11, 15, 16,
                     <<17, 18, 19>>)>>

\* the results of test_asciidoc_format_ms, in thousandths of a second
FixtureMilliSeconds ==
    <<ExportedResult(<<"FOO=1 BAR=7 command ", "|", " 2">>, 11, 12, 11, 15, 16,
                     <<17, 18, 19>>),
      ExportedResult(<<"FOO=1 BAR=2 command ", "|", " 1">>, 1000, 2000, 1000, 5000, 6000,
                     <<7000, 8000, 9000>>)>>

\* one measured run per command: mean, median, min and max are its time
MeasuredResults ==
    UNION {{[k \in 1..n |-> ExportedResult(<<"cmd", ToString(k)>>, m[k], d[k], m[k],
                                           m[k], m[k], <<m[k]>>)] :
               m \in [1..n -> 1..MaxMean], d \in [1..n -> 1..MaxMean]} :
           n \in 1..MaxCommands}

\* the calls of serialize
SerializeRequests ==
    {[op |-> "serialize", results |-> rs, ticks_per_second |-> t, unit |-> u,
      sort_order |-> o] :
        rs \in MeasuredResults, t \in TicksPerSecond, u \in Unit, o \in SortOrder}
    \cup {[op |-> "serialize", results |-> FixtureSeconds, ticks_per_second |-> 1,
           unit |-> u, sort_order |-> o] : u \in Unit, o \in SortOrder}
    \cup {[op |-> "serialize", results |-> FixtureMilliSeconds,
           ticks_per_second |-> 1000, unit |-> u, sort_order |-> o] :
              u \in Unit, o \in SortOrder}

\* a call on the exporter, nothing else of the program in motion
InitExport ==
    /\ commands = <<>>
    /\ options \in {o \in Options : /\ o.executor_kind = "Mock"
                                    /\ o.output_style = "Full"
                                    /\ o.sort_order_speed_comparison = "Command"
                                    /\ o.sort_order_exports = "Command"
                                    /\ o.failure_policy = "Abort"}
    /\ results = <<>>
    /\ executor = None
    /\ executors_made = 0
    /\ calibrations = 0
    /\ bench_log = <<>>
    /\ exports = <<>>
    /\ comparator_calls = 0
    /\ comparison = None
    /\ output = <<>>
    /\ request \in {Some(r) : r \in HeaderRequests \cup FooterRequests
                                    \cup RowRequests \cup SerializeRequests}
    /\ document = <<>>
    /\ pc = "Calling"
    /\ number = 0
    /\ error = NoneVal

\* the call returns its text
Returns(text) ==
    /\ document' = text
    /\ pc' = "Returned"
    /\ UNCHANGED <<request, commands, options, results, executor, executors_made,
                   calibrations, bench_log, exports, comparator_calls, output, number,
                   error>>

TableHeader ==
    /\ pc = "Calling"
    /\ Unwrap(request).op = "table_header"
    /\ Returns(table_header(Unwrap(request).alignments))
    /\ UNCHANGED comparison

TableFooter ==
    /\ pc = "Calling"
    /\ Unwrap(request).op = "table_footer"
    /\ Returns(table_footer(Unwrap(request).alignments))
    /\ UNCHANGED comparison

TableRow ==
    /\ pc = "Calling"
    /\ Unwrap(request).op = "table_row"
    /\ Returns(table_row(Unwrap(request).cells))
    /\ UNCHANGED comparison

Serialize ==
    /\ pc = "Calling"
    /\ Unwrap(request).op = "serialize"
    /\ LET r == Unwrap(request)
       IN  /\ comparison' = compute_with_check(r.results, r.sort_order)
           /\ Returns(serialize(r.results, r.ticks_per_second, r.unit, r.sort_order))

NextExport ==
    \/ TableHeader
    \/ TableFooter
    \/ TableRow
    \/ Serialize

SpecExport == InitExport /\ [][NextExport]_vars

(* ------------------------- claims on the exporter ----------------------- *)

\* the call of the operation has returned its text
Returned(op) == pc = "Returned" /\ IsSome(request) /\ Unwrap(request).op = op

\* the pieces that open a cell: a line break followed by "| "
CellOpeners == {"\n| ", " \n| "}

\* the positions of the cell openers in a text
Openers(text) == {k \in 1..Len(text) : text[k] \in CellOpeners}

\* table_header: one marker per column in column order, comma-separated, inside
\* the cols specification, then the opening |=== line
HeaderShape ==
    Returned("table_header") =>
        LET al == Unwrap(request).alignments
            n == Len(al)
        IN  /\ Len(document) = IF n = 0 THEN 2 ELSE 2 * n + 1
            /\ document[1] = "[cols=\""
            /\ document[Len(document)] = "\"]\n|==="
            /\ \A k \in 1..n : document[2 * k] = IF al[k] = "Left" THEN "<" ELSE ">"
            /\ \A k \in 1..(n - 1) : document[2 * k + 1] = ","
            /\ al = <<"Left", "Right", "Right", "Right", "Right">>
                  => Concat(document) = "[cols=\"<,>,>,>,>\"]\n|==="

\* table_row: the cells in their order, each after an opener and before a line
\* break, as many openers as cells
RowShape(cells) ==
    /\ Cardinality(Openers(document)) = Len(cells)
    /\ \A k \in 1..Len(cells) :
          /\ document[2 * k - 1] \in CellOpeners
          /\ document[2 * k] = cells[k]
          /\ document[2 * k + 1] \in {" \n| ", " \n"}
    /\ cells = <<"a", "b", "c">> => Concat(document) = "\n| a \n| b \n| c \n"

\* C17 as stated: the header has one marker per column in order followed by the
\* |=== line, and for every sequence of cells, the empty one included, table_row
\* emits as many cell openers as cells
C17_OpenersEqualCells ==
    /\ HeaderShape
    /\ Returned("table_row") => RowShape(Unwrap(request).cells)

\* C17: the header has one marker per column in column order, comma-separated,
\* followed by the |=== line; for every non-empty sequence of cells table_row
\* emits the cells in order, each on its own line behind an opener, as many
\* openers as cells; for no cells it emits one opener and an empty cell
C17_HeaderAndRowShape ==
    /\ HeaderShape
    /\ Returned("table_row") /\ Unwrap(request).cells # <<>>
          => RowShape(Unwrap(request).cells)
    /\ Returned("table_row") /\ Unwrap(request).cells = <<>>
          => /\ Concat(document) = "\n|  \n"
             /\ Cardinality(Openers(document)) = 1

\* a row of three cells has been emitted
C17_Witness == Returned("table_row") /\ Unwrap(request).cells = <<"a", "b", "c">>

\* the text test_asciidoc_format_s expects
ExpectedSeconds ==
    "[cols=\"<,>,>,>,>\"]\n|===\n| Command \n| Mean [s] \n| Min [s] \n| Max [s] \n| Relative \n"
    \o "\n| " \o Backquote \o "FOO=1 BAR=2 command \\| 1" \o Backquote
    \o " \n| 1.000 ± 2.000 \n| 5.000 \n| 6.000 \n| 1.00 \n"
    \o "\n| " \o Backquote \o "FOO=1 BAR=7 command \\| 2" \o Backquote
    \o " \n| 11.000 ± 12.000 \n| 15.000 \n| 16.000 \n| 11.00 ± 25.06 \n"
    \o "|===\n"

\* the text test_asciidoc_format_ms expects
ExpectedMilliSeconds ==
    "[cols=\"<,>,>,>,>\"]\n|===\n| Command \n| Mean [ms] \n| Min [ms] \n| Max [ms] \n| Relative \n"
    \o "\n| " \o Backquote \o "FOO=1 BAR=7 command \\| 2" \o Backquote
    \o " \n| 11.0 ± 12.0 \n| 15.0 \n| 16.0 \n| 1.00 \n"
    \o "\n| " \o Backquote \o "FOO=1 BAR=2 command \\| 1" \o Backquote
    \o " \n| 1000.0 ± 2000.0 \n| 5000.0 \n| 6000.0 \n| 90.91 ± 207.11 \n"
    \o "|===\n"

\* serialize has returned for a request in command order
SerializedInCommandOrder ==
    Returned("serialize") /\ Unwrap(request).sort_order = "Command"

\* the number of pieces of the header of the five columns
HeaderPieces == 2 * Len(ColumnAlignments) + 1

\* the number of pieces of a row of five cells
RowPieces == 2 * Len(ColumnAlignments) + 1

\* the position of the opener of row j, the heading row being row 0
RowStart(j) == HeaderPieces + RowPieces * j + 1

\* cell c of row j of the document
Cell(j, c) == document[RowStart(j) + 2 * c - 1]

\* the positions of a piece in the document
PositionsOf(piece) == {k \in 1..Len(document) : document[k] = piece}

\* the first result of least mean
LeastMean(rs) ==
    CHOOSE i \in 1..Len(rs) :
        /\ \A j \in 1..Len(rs) : rs[i].mean <= rs[j].mean
        /\ \A j \in 1..(i - 1) : rs[j].mean > rs[i].mean

\* C16: serialising n results in command order gives the header once, the
\* heading row and n row blocks in the order of the input, the footer once; the
\* fastest result's Relative cell is 1.00 with no uncertainty; every time cell
\* is in the requested unit; and the two format tests' texts come out
C16_SerializeInInputOrder ==
    SerializedInCommandOrder =>
        LET r == Unwrap(request)
            n == Len(r.results)
            F(t) == format_duration_value(t, r.ticks_per_second, r.unit)
        IN  /\ PositionsOf("[cols=\"") = {1}
            /\ PositionsOf("\"]\n|===") = {HeaderPieces}
            /\ PositionsOf("|===\n") = {Len(document)}
            /\ Len(document) = HeaderPieces + RowPieces * (n + 1) + 1
            /\ PositionsOf("\n| ") = {RowStart(j) : j \in 0..n}
            /\ Cell(0, 2) = "Mean [" \o short_name(r.unit) \o "]"
            /\ Cell(0, 3) = "Min [" \o short_name(r.unit) \o "]"
            /\ Cell(0, 4) = "Max [" \o short_name(r.unit) \o "]"
            /\ \A j \in 1..n :
                  /\ Cell(j, 1) = Backquote \o Concat(escape(r.results[j].command))
                                  \o Backquote
                  /\ Cell(j, 2) = F(r.results[j].mean) \o " ± "
                                  \o F(Unwrap(r.results[j].stddev))
                  /\ Cell(j, 3) = F(r.results[j].min)
                  /\ Cell(j, 4) = F(r.results[j].max)
            /\ Cell(LeastMean(r.results), 5) = "1.00"
            /\ r.results = FixtureSeconds /\ r.unit = "Second"
                  => Concat(document) = ExpectedSeconds
            /\ r.results = FixtureMilliSeconds /\ r.unit = "MilliSecond"
                  => Concat(document) = ExpectedMilliSeconds

\* three results serialised in command order, the fastest of them last
C16_Witness ==
    /\ SerializedInCommandOrder
    /\ Len(Unwrap(request).results) = 3
    /\ LeastMean(Unwrap(request).results) = 3

\* the entry the comparison marks as the reference
ReferenceOf(entries) == entries[CHOOSE i \in 1..Len(entries) : entries[i].is_fastest]

\* the products of the uncertainty equation stay within 32 bits
SmallEnough(rs) == \A k \in 1..Len(rs) : rs[k].mean <= 100 /\ Unwrap(rs[k].stddev) <= 100

\* the equations of relative_speed and relative_speed_stddev, cross-multiplied:
\* num / den = m / fm and sq_num / sq_den = (num / den)^2 ((s / m)^2 + (fs / fm)^2)
SpeedEquations(e, f) ==
    LET m == e.result.mean
        sd == Unwrap(e.result.stddev)
        fm == f.result.mean
        fs == Unwrap(f.result.stddev)
        num == e.relative_speed.num
        den == e.relative_speed.den
        u == Unwrap(e.relative_speed_stddev)
    IN  /\ num * fm = m * den
        /\ IsSome(e.relative_speed_stddev)
        /\ u.sq_num * den * den * m * m * fm * fm
              = u.sq_den * num * num * (sd * sd * fm * fm + fs * fs * m * m)

\* C15: for every non-fastest result with both stddevs present, relative_speed
\* is mean / fastest.mean and relative_speed_stddev is relative_speed *
\* sqrt((stddev / mean)^2 + (fastest.stddev / fastest.mean)^2); the results of
\* the two format tests show 11.00 ± 25.06 and 90.91 ± 207.11
C15_RelativeSpeedNumbers ==
    Returned("serialize") =>
        LET r == Unwrap(request)
            entries == Unwrap(comparison)
        IN  /\ SmallEnough(r.results) =>
                  \A k \in 1..Len(entries) :
                      ~entries[k].is_fastest
                          => SpeedEquations(entries[k], ReferenceOf(entries))
            /\ r.results = FixtureSeconds /\ r.sort_order = "Command"
                  => Cell(2, 5) = "11.00 ± 25.06"
            /\ r.results = FixtureMilliSeconds /\ r.sort_order = "Command"
                  => Cell(2, 5) = "90.91 ± 207.11"

\* the results of test_asciidoc_format_ms have been serialised
C15_Witness ==
    /\ SerializedInCommandOrder
    /\ Unwrap(request).results = FixtureMilliSeconds
    /\ Cell(2, 5) = "90.91 ± 207.11"

\* C14: every exported BenchmarkResult has min <= mean <= max, min <= median <=
\* max, a non-negative stddev and as many exit codes as measured runs
C14_ResultInvariants ==
    Returned("serialize") =>
        \A k \in 1..Len(Unwrap(request).results) :
            LET r == Unwrap(request).results[k]
            IN  /\ r.min <= r.mean /\ r.mean <= r.max
                /\ r.min <= r.median /\ r.median <= r.max
                /\ IsSome(r.stddev) => Unwrap(r.stddev) >= 0
                /\ IsSome(r.times) => Len(r.exit_codes) = Len(Unwrap(r.times))

====
